---- MODULE Spec2Model ----
(***************************************************************************)
(* Cantilan ERS (src/emg.py): the in-session store (users, sos_logs,       *)
(* reports), the session (current_user, page, the geocoded coordinates     *)
(* kept between runs) and one action per widget event of the script.       *)
(*                                                                         *)
(* Python's None is the empty tuple <<>>; a set value x is kept as <<x>>   *)
(* where the code tests it against None.  Coordinates are integers in      *)
(* units of 1e-4 degree.  notice is the set of messages (st.error,         *)
(* st.warning, st.success) the last script run displayed.  issued_ids is a *)
(* history variable: the user ids add_user has handed out so far.          *)
(* hotline_coordinates is the session's cache of the hotline lookups: the  *)
(* first script run shows the home page, which fills it.  hotline_lookups  *)
(* is a history variable: the geocoder calls get_hotline_coordinates has   *)
(* made, in order, each with the address asked and the result.             *)
(* The "Geocode Address" buttons of the signup pages only display: they     *)
(* write nothing the session keeps and have no action here.                *)
(***************************************************************************)
EXTENDS Integers, Sequences, FiniteSets, TLC

VARIABLES users, sos_logs, reports, current_user, cur_pos, page,
          temp_emergency_coords, incident_lat, incident_lon, notice, issued_ids,
          hotline_coordinates, hotline_lookups

vars == <<users, sos_logs, reports, current_user, cur_pos, page,
          temp_emergency_coords, incident_lat, incident_lon, notice, issued_ids,
          hotline_coordinates, hotline_lookups>>

store == <<users, sos_logs, reports>>
session == <<current_user, cur_pos, page, temp_emergency_coords, incident_lat, incident_lon>>
history == <<issued_ids>>
hotlines == <<hotline_coordinates, hotline_lookups>>

(* ---------------- bounds of the model ---------------- *)
MaxUsers == 3
MaxAlerts == 2
MaxReports == 1

(* ---------------- constants of the program ---------------- *)
None == <<>>

CANTILAN_CENTER == <<93355, 1259769>>

ADMIN_CODE == "admin"

ShownUnresolved == 5

(* ---------------- inputs ---------------- *)
Usernames == {"a", "b"}
Passwords == {"p"}
LoginPasswords == {"p", "q"}
Addresses == {"x"}
Blank == ""

(* ---------------- the geocoding provider ---------------- *)
\* HOTLINES: the names and addresses.
HOTLINES ==
    <<[Name |-> "BFP - Fire Station", Address |-> "Brgy. Center"],
      [Name |-> "PNP - Police Station", Address |-> "Municipal Hall"],
      [Name |-> "LGU Cantilan (DRRMO)", Address |-> "Municipal Hall"],
      [Name |-> "Municipal Health Office", Address |-> "Health Center"]>>

HotlineAddresses == {HOTLINES[i].Address : i \in 1..Len(HOTLINES)}

\* Where the provider puts the hotline addresses.
HotlinePoint(address) ==
    CASE address = "Brgy. Center" -> <<93360, 1259769>>
      [] address = "Municipal Hall" -> <<93355, 1259779>>
      [] address = "Health Center" -> <<93380, 1259769>>

\* What the provider knows: "x", "equator" (a point of latitude 0) and the
\* hotline addresses are found, any other address is not.
Locate(address) ==
    IF address = "x" THEN <<93400, 1259800>>
    ELSE IF address = "equator" THEN <<0, 1259769>>
    ELSE IF address \in HotlineAddresses THEN HotlinePoint(address)
    ELSE None

\* geocode_address: the coordinates, or None when the provider finds nothing
\* or the call raises (net_ok = FALSE).
geocode_address(address, net_ok) ==
    IF net_ok THEN Locate(address) ELSE None

(* ---------------- store functions ---------------- *)
NewUserId(us) == Len(us) + 1

\* add_user that gives up when the address cannot be located.
add_user_or_abort(user, net_ok) ==
    IF user.property_address # Blank /\ geocode_address(user.property_address, net_ok) = None
    THEN users
    ELSE Append(users, [id |-> NewUserId(users),
                        username |-> user.username,
                        password |-> user.password,
                        name |-> user.name,
                        role |-> user.role,
                        property_address |-> user.property_address,
                        latitude |-> geocode_address(user.property_address, net_ok)[1],
                        longitude |-> geocode_address(user.property_address, net_ok)[2]])

\* add_user: the record appended to users, with its id and coordinates.
add_user(user, net_ok) ==
    LET coords == geocode_address(user.property_address, net_ok)
        located == user.property_address # Blank /\ coords # None
        ll == IF located THEN coords ELSE CANTILAN_CENTER
    IN  Append(users, [id |-> NewUserId(users),
                       username |-> user.username,
                       password |-> user.password,
                       name |-> user.name,
                       role |-> user.role,
                       property_address |-> user.property_address,
                       latitude |-> ll[1],
                       longitude |-> ll[2]])

\* The messages add_user displays.
add_user_notice(user, net_ok) ==
    IF user.property_address # Blank /\ geocode_address(user.property_address, net_ok) = None
    THEN {"could_not_locate_using_center"}
    ELSE {}

RECURSIVE FirstIdx(_, _, _)
\* The first index i >= from of seq with P[i], 0 when there is none.
FirstIdx(hit, from, n) ==
    IF from > n THEN 0
    ELSE IF from \in hit THEN from
    ELSE FirstIdx(hit, from + 1, n)

\* A lookup that compares the name field.
UsernameIdxByName(username) ==
    FirstIdx({i \in 1..Len(users) : users[i].name = username}, 1, Len(users))

UsernameIdx(username) ==
    FirstIdx({i \in 1..Len(users) : users[i].username = username}, 1, Len(users))

get_user_by_username(username) ==
    IF UsernameIdx(username) = 0 THEN None ELSE <<users[UsernameIdx(username)]>>

\* A login that never looks at the password.
LoginIdxAnyPassword(username, password) ==
    FirstIdx({i \in 1..Len(users) : users[i].username = username}, 1, Len(users))

LoginIdx(username, password) ==
    FirstIdx({i \in 1..Len(users) : users[i].username = username
                                    /\ users[i].password = password},
             1, Len(users))

validate_login(username, password) ==
    IF LoginIdx(username, password) = 0 THEN None
    ELSE <<users[LoginIdx(username, password)]>>

\* A filter that keeps no user.
KeepNoUser(user, user_id) == FALSE

\* user.get("id") != user_id
KeepUser(user, user_id) == user.id # user_id

\* A filter on the alert's own id in place of its user_id.
KeepLogByAlertId(log, user_id) == log.id # user_id

\* A filter that keeps every alert.
KeepEveryLog(log, user_id) == TRUE

\* log.get("user_id") != user_id
KeepLog(log, user_id) == log.user_id # user_id

\* delete_user_by_id: the two filtered lists.
delete_users(user_id) == SelectSeq(users, LAMBDA u : KeepUser(u, user_id))

\* A cascade that looks the sender's name up again: with the user gone, the
\* alerts that stay are left without one.
delete_logs_unnamed(user_id) ==
    [i \in 1..Len(SelectSeq(sos_logs, LAMBDA l : KeepLog(l, user_id))) |->
        [SelectSeq(sos_logs, LAMBDA l : KeepLog(l, user_id))[i] EXCEPT !.user_name = "Unknown"]]

delete_logs(user_id) == SelectSeq(sos_logs, LAMBDA l : KeepLog(l, user_id))

\* get_address_from_coords: the provider's name of a point, "Address not
\* found" where it has none (the provider is taken to answer).
get_address_from_coords(lat, lon) ==
    IF <<lat, lon>> = Locate("x") THEN "x"
    ELSE IF <<lat, lon>> = CANTILAN_CENTER THEN "Cantilan"
    ELSE "Address not found"

NewSosId(logs) == Len(logs) + 1

\* A log_sos that starts the list anew.
log_sos_afresh(user_id, user_name, lat, lon) ==
    <<[id |-> 1, user_id |-> user_id, user_name |-> user_name, lat |-> lat, lon |-> lon,
       handled |-> FALSE, address |-> get_address_from_coords(lat, lon)]>>

log_sos(user_id, user_name, lat, lon) ==
    Append(sos_logs, [id |-> NewSosId(sos_logs),
                      user_id |-> user_id,
                      user_name |-> user_name,
                      lat |-> lat,
                      lon |-> lon,
                      handled |-> FALSE,
                      address |-> get_address_from_coords(lat, lon)])

\* The alert mark_sos_handled stops at: the first one with this id.
AlertIdx(sos_id) ==
    FirstIdx({k \in 1..Len(sos_logs) : sos_logs[k].id = sos_id}, 1, Len(sos_logs))

\* A flag that is flipped.
ToggledValue(old) == ~old

MarkedValue(old) == TRUE

mark_sos_handled(sos_id) ==
    IF AlertIdx(sos_id) = 0 THEN sos_logs
    ELSE [sos_logs EXCEPT ![AlertIdx(sos_id)].handled = MarkedValue(@)]

NewReportId(rs) == Len(rs) + 1

add_report(reporter_id, reporter_name, category, description, lat, lon) ==
    Append(reports, [id |-> NewReportId(reports),
                     reporter_id |-> reporter_id,
                     reporter_name |-> reporter_name,
                     category |-> category,
                     description |-> description,
                     lat |-> lat,
                     lon |-> lon])

\* The cache holds no entry for any address.
NeverInCache(cache, address_key) == FALSE

\* address_key not in st.session_state.hotline_coordinates, negated.
InCache(cache, address_key) == address_key \in DOMAIN cache

\* The loop of get_hotline_coordinates from hotline i on: an address not yet
\* in the cache is geocoded and cached at the point found, or at
\* CANTILAN_CENTER when geocode_address returns None (answers[a] tells
\* whether the provider answers a lookup of a).  h is the cache with the
\* geocoder calls made so far.
RECURSIVE FillHotlines(_, _, _)
FillHotlines(i, h, answers) ==
    IF i > Len(HOTLINES) THEN h
    ELSE LET address_key == HOTLINES[i].Address IN
         IF InCache(h.cache, address_key) THEN FillHotlines(i + 1, h, answers)
         ELSE LET coords == geocode_address(address_key, answers[address_key]) IN
              FillHotlines(i + 1,
                           [cache |-> (address_key :> (IF coords # None THEN coords
                                                       ELSE CANTILAN_CENTER)) @@ h.cache,
                            lookups |-> Append(h.lookups, [address |-> address_key,
                                                           coords |-> coords])],
                           answers)

\* get_hotline_coordinates: the loop runs only when the cache is empty.
get_hotline_coordinates(h, answers) ==
    IF DOMAIN h.cache = {} THEN FillHotlines(1, h, answers) ELSE h

\* The session's cache before any call.
NoHotlines == [cache |-> <<>>, lookups |-> <<>>]

\* The provider answers every hotline lookup.
AllAnswered == [a \in HotlineAddresses |-> TRUE]

(* ---------------- initial state ---------------- *)
\* The session after its first script run: initialize_session_state, then the
\* home page, whose map has filled the hotline cache.
FirstRun(answers) ==
    /\ users = <<>>
    /\ sos_logs = <<>>
    /\ reports = <<>>
    /\ current_user = None
    /\ cur_pos = 0
    /\ page = "home"
    /\ temp_emergency_coords = None
    /\ incident_lat = None
    /\ incident_lon = None
    /\ notice = {}
    /\ issued_ids = {}
    /\ hotline_coordinates = get_hotline_coordinates(NoHotlines, answers).cache
    /\ hotline_lookups = get_hotline_coordinates(NoHotlines, answers).lookups

Init == FirstRun(AllAnswered)

(* ---------------- sidebar ---------------- *)
SidebarLogin ==
    /\ current_user = None
    /\ page' = "login"
    /\ notice' = {}
    /\ UNCHANGED <<store, history, current_user, cur_pos, temp_emergency_coords, incident_lat, incident_lon>>
    /\ UNCHANGED hotlines

SidebarSignup ==
    /\ current_user = None
    /\ page' = "signup_role"
    /\ notice' = {}
    /\ UNCHANGED <<store, history, current_user, cur_pos, temp_emergency_coords, incident_lat, incident_lon>>
    /\ UNCHANGED hotlines

SidebarHome ==
    /\ page' = "home"
    /\ notice' = {}
    /\ UNCHANGED <<store, history, current_user, cur_pos, temp_emergency_coords, incident_lat, incident_lon>>
    /\ UNCHANGED hotlines

SidebarAbout ==
    /\ page' = "about"
    /\ notice' = {}
    /\ UNCHANGED <<store, history, current_user, cur_pos, temp_emergency_coords, incident_lat, incident_lon>>
    /\ UNCHANGED hotlines

SidebarLogout ==
    /\ current_user # None
    /\ current_user' = None
    /\ cur_pos' = 0
    /\ notice' = {"logged_out"}
    /\ UNCHANGED <<store, history, page, temp_emergency_coords, incident_lat, incident_lon>>
    /\ UNCHANGED hotlines

(* ---------------- public pages ---------------- *)
SignupPages == {"signup_user", "signup_rescuer", "signup_government", "signup_admin"}

page_signup_role(target) ==
    /\ current_user = None
    /\ page = "signup_role"
    /\ page' = target
    /\ notice' = {}
    /\ UNCHANGED <<store, history, current_user, cur_pos, temp_emergency_coords, incident_lat, incident_lon>>
    /\ UNCHANGED hotlines

\* any([...]) in place of all([...]).
AnyFilled(fields) == \E i \in 1..Len(fields) : fields[i] # Blank

\* all([...]) of the form's required fields.
AllFilled(fields) == \A i \in 1..Len(fields) : fields[i] # Blank

\* The tail of the four signup handlers: add_user, then page = "login".
Register(user, net_ok) ==
    /\ Len(users) < MaxUsers
    /\ users' = add_user(user, net_ok)
    /\ page' = "login"
    /\ notice' = add_user_notice(user, net_ok) \cup {"account_created"}
    /\ issued_ids' = issued_ids \cup {NewUserId(users)}
    /\ UNCHANGED <<sos_logs, reports, current_user, cur_pos,
                   temp_emergency_coords, incident_lat, incident_lon>>

Reject(msg) ==
    /\ notice' = {msg}
    /\ UNCHANGED <<store, session, history>>

UserRecord(role, f) ==
    [role |-> role, username |-> f.username, password |-> f.password,
     name |-> f.name, property_address |-> f.address]

page_signup_user(f, net_ok) ==
    /\ current_user = None
    /\ page = "signup_user"
    /\ IF ~AllFilled(<<f.username, f.password, f.name, f.mobile, f.address>>)
       THEN Reject("fill_required")
       ELSE IF get_user_by_username(f.username) # None
       THEN Reject("username_exists")
       ELSE Register(UserRecord("user", f), net_ok)
    /\ UNCHANGED hotlines

page_signup_rescuer(f, net_ok) ==
    /\ current_user = None
    /\ page = "signup_rescuer"
    /\ IF ~AllFilled(<<f.username, f.password, f.name, f.mobile, f.position, f.work, f.address>>)
       THEN Reject("fill_required")
       ELSE IF get_user_by_username(f.username) # None
       THEN Reject("username_exists")
       ELSE Register(UserRecord("rescuer", f), net_ok)
    /\ UNCHANGED hotlines

page_signup_government(f, net_ok) ==
    /\ current_user = None
    /\ page = "signup_government"
    /\ IF ~AllFilled(<<f.username, f.password, f.name, f.mobile, f.position, f.department, f.address>>)
       THEN Reject("fill_required")
       ELSE IF get_user_by_username(f.username) # None
       THEN Reject("username_exists")
       ELSE Register(UserRecord("government", f), net_ok)
    /\ UNCHANGED hotlines

page_signup_admin(f, net_ok) ==
    /\ current_user = None
    /\ page = "signup_admin"
    /\ IF ~AllFilled(<<f.username, f.password, f.name, f.mobile, f.position, f.department,
                       f.verification_code>>)
       THEN Reject("fill_required")
       ELSE IF f.password # f.confirm_password
       THEN Reject("passwords_do_not_match")
       ELSE IF get_user_by_username(f.username) # None
       THEN Reject("username_exists")
       ELSE IF f.verification_code # ADMIN_CODE
       THEN Reject("invalid_verification_code")
       ELSE Register(UserRecord("admin", f), net_ok)
    /\ UNCHANGED hotlines

page_login(username, password) ==
    /\ current_user = None
    /\ page = "login"
    /\ IF validate_login(username, password) = None
       THEN Reject("invalid_login")
       ELSE /\ current_user' = validate_login(username, password)
            /\ cur_pos' = LoginIdx(username, password)
            /\ notice' = {"welcome"}
            /\ UNCHANGED <<store, history, page, temp_emergency_coords, incident_lat, incident_lon>>
    /\ UNCHANGED hotlines

(* ---------------- distances ---------------- *)
\* A coordinate that is not a number: what a pandas row holds for a missing
\* latitude or longitude.
NaN == 2000000

Abs(n) == IF n < 0 THEN -n ELSE n

\* The points geodesic accepts: finite, latitude within 90 degrees.
IsPoint(coord) ==
    /\ coord[1] # NaN
    /\ coord[2] # NaN
    /\ Abs(coord[1]) <= 900000

\* get_distance: the distance, or None when geodesic raises.  The geodesic
\* length is kept as the grid distance in 1e-4 degree: 0 exactly between
\* equal points.
get_distance(coord1, coord2) ==
    IF IsPoint(coord1) /\ IsPoint(coord2)
    THEN <<Abs(coord1[1] - coord2[1]) + Abs(coord1[2] - coord2[2])>>
    ELSE None

(* ---------------- the responder's ranking ---------------- *)
\* float('inf')
Inf == 2147483647

\* get_active_sos: one row per stored alert, in store order.
get_active_sos == sos_logs

\* A loop that skips the alerts whose distance is None.
WithKnownDistance(responder_coords, rows) ==
    SelectSeq([i \in 1..Len(rows) |->
                  <<rows[i], get_distance(responder_coords, <<rows[i].lat, rows[i].lon>>)>>],
              LAMBDA x : x[2] # None)

\* The loop over df_sos.iterrows(): (alert, distance) for every row.
WithDistance(responder_coords, rows) ==
    [i \in 1..Len(rows) |->
        <<rows[i], get_distance(responder_coords, <<rows[i].lat, rows[i].lon>>)>>]

\* A key that puts None first.
SortKeyNoneFirst(x) == IF x[2] # None THEN x[2][1] ELSE 0

\* key=lambda x: x[1] if x[1] is not None else float('inf')
SortKey(x) == IF x[2] # None THEN x[2][1] ELSE Inf

RECURSIVE InsertBeforeEqual(_, _)
\* An insertion that goes in front of the elements with the same key.
InsertBeforeEqual(x, sorted) ==
    IF sorted = <<>> THEN <<x>>
    ELSE IF SortKey(x) <= SortKey(Head(sorted)) THEN <<x>> \o sorted
    ELSE <<Head(sorted)>> \o InsertBeforeEqual(x, Tail(sorted))

RECURSIVE InsertSorted(_, _)
\* x put into a sorted list behind every element whose key is not greater.
InsertSorted(x, sorted) ==
    IF sorted = <<>> THEN <<x>>
    ELSE IF SortKey(x) < SortKey(Head(sorted)) THEN <<x>> \o sorted
    ELSE <<Head(sorted)>> \o InsertSorted(x, Tail(sorted))

\* A list left in store order.
unsorted(seq) == seq

RECURSIVE sort_descending(_)
\* list.sort(key=..., reverse=True): the largest key first.
sort_descending(seq) ==
    IF seq = <<>> THEN <<>>
    ELSE LET i == CHOOSE i \in 1..Len(seq) :
                     \A j \in 1..Len(seq) : SortKey(seq[j]) <= SortKey(seq[i]) IN
         <<seq[i]>> \o sort_descending(SubSeq(seq, 1, i - 1) \o SubSeq(seq, i + 1, Len(seq)))

RECURSIVE sort(_)
\* list.sort(key=...): ascending by key, equal keys in their former order.
sort(seq) ==
    IF seq = <<>> THEN <<>>
    ELSE InsertSorted(seq[Len(seq)], sort(SubSeq(seq, 1, Len(seq) - 1)))

\* A test that finds no alert resolved.
NeverResolved(x) == FALSE

\* alert_tuple[0].get('handled', False)
IsResolved(x) == x[1].handled

(* ---------------- dashboards ---------------- *)
\* A router that shows every dashboard to whoever is logged in.
DashboardOfAnyRole(role) == current_user # None

\* main_router: the dashboard of the logged-in user's role.
Dashboard(role) == current_user # None /\ current_user[1].role = role

user == current_user[1]

\* user.get("name") or user.get("username")
DisplayName(u) == IF u.name # Blank THEN u.name ELSE u.username

\* user_dashboard, "Locate This Address": shown when "Use my registered
\* address" is unticked and a current address is typed.
LocateThisAddress(current_address, net_ok) ==
    /\ Dashboard("user")
    /\ current_address # Blank
    /\ LET coords == geocode_address(current_address, net_ok) IN
         IF coords # None
         THEN /\ temp_emergency_coords' = coords
              /\ notice' = {"location_set"}
         ELSE /\ notice' = {"address_not_found"}
              /\ UNCHANGED temp_emergency_coords
    /\ UNCHANGED <<store, history, current_user, cur_pos, page, incident_lat, incident_lon>>
    /\ UNCHANGED hotlines

\* user_dashboard, "SEND EMERGENCY ALERT".
SendEmergencyAlert(use_registered) ==
    /\ Dashboard("user")
    /\ IF ~use_registered /\ temp_emergency_coords = None
       THEN Reject("locate_current_address_first")
       ELSE LET ll == IF use_registered THEN <<user.latitude, user.longitude>>
                      ELSE temp_emergency_coords IN
            /\ Len(sos_logs) < MaxAlerts
            /\ sos_logs' = log_sos(user.id, DisplayName(user), ll[1], ll[2])
            /\ notice' = {"alert_sent"}
            /\ UNCHANGED <<users, reports, session, history>>
    /\ UNCHANGED hotlines

\* The dict current_user refers to, updated in place: the same object is the
\* element cur_pos of users while it is in the list.
SetCoords(coords) ==
    /\ current_user' = <<[user EXCEPT !.latitude = coords[1], !.longitude = coords[2]]>>
    /\ users' = IF cur_pos = 0 THEN users
                ELSE [users EXCEPT ![cur_pos].latitude = coords[1],
                                   ![cur_pos].longitude = coords[2]]

\* Python's truth of a distance: None and 0.0 are false.
Truthy(distance) == distance # None /\ distance[1] # 0

RECURSIVE ScanHotlines(_, _, _, _)
\* user_dashboard: the loop over HOTLINES from position i on, with the
\* min_distance and nearest_hotline it has so far.
ScanHotlines(user_coords, i, min_distance, nearest) ==
    IF i > Len(HOTLINES) THEN nearest
    ELSE IF HOTLINES[i].Address \in DOMAIN hotline_coordinates
    THEN LET distance == get_distance(user_coords, hotline_coordinates[HOTLINES[i].Address]) IN
         IF Truthy(distance) /\ distance[1] < min_distance
         THEN ScanHotlines(user_coords, i + 1, distance[1], <<HOTLINES[i]>>)
         ELSE ScanHotlines(user_coords, i + 1, min_distance, nearest)
    ELSE ScanHotlines(user_coords, i + 1, min_distance, nearest)

\* user_dashboard: the nearest hotline of the logged-in citizen, None when the
\* scan finds none or the citizen's latitude or longitude is false.
nearest_hotline ==
    IF user.latitude # 0 /\ user.longitude # 0
    THEN ScanHotlines(<<user.latitude, user.longitude>>, 1, Inf, None)
    ELSE None

\* user_dashboard, "Re-geocode My Address".
ReGeocodeMyAddress(net_ok) ==
    /\ Dashboard("user")
    /\ IF user.property_address = Blank
       THEN /\ notice' = {}
            /\ UNCHANGED <<store, session, history>>
       ELSE LET coords == geocode_address(user.property_address, net_ok) IN
            IF coords # None
            THEN /\ SetCoords(coords)
                 /\ notice' = {"location_updated"}
                 /\ UNCHANGED <<sos_logs, reports, cur_pos, page, temp_emergency_coords,
                                incident_lat, incident_lon, history>>
            ELSE Reject("could_not_locate_address")
    /\ UNCHANGED hotlines

\* rescuer_dashboard: the responder's own coordinates.
responder_coords == <<user.latitude, user.longitude>>

\* rescuer_dashboard: the alerts with their distances, sorted by distance.
alerts_with_distance == sort(WithDistance(responder_coords, get_active_sos))

unresolved_alerts == SelectSeq(alerts_with_distance, LAMBDA x : ~IsResolved(x))

resolved_alerts == SelectSeq(alerts_with_distance, IsResolved)

\* rescuer_dashboard: the label of a resolved alert is formatted with the
\* format specification ".1f if distance else '?'", which format() refuses
\* for a float and for None alike.
ResolvedLabelRaises == resolved_alerts # <<>>

\* rescuer_dashboard: the ids of the alerts that carry a "Mark Handled" button:
\* the closest ShownUnresolved of the unresolved ones.
HandleButtons ==
    {unresolved_alerts[i][1].id :
        i \in {k \in 1..Len(unresolved_alerts) : k <= ShownUnresolved}}

\* rescuer_dashboard, "Mark Handled" of the alert listed with this id.
MarkHandled(sos_id) ==
    /\ Dashboard("rescuer")
    /\ sos_id \in HandleButtons
    /\ sos_logs' = mark_sos_handled(sos_id)
    /\ notice' = {"marked_handled"}
    /\ UNCHANGED <<users, reports, session, history>>
    /\ UNCHANGED hotlines

\* government_dashboard, "Geocode Incident Address".
GeocodeIncidentAddress(incident_address, net_ok) ==
    /\ Dashboard("government")
    /\ LET coords == geocode_address(incident_address, net_ok) IN
         IF incident_address = Blank
         THEN /\ notice' = {"enter_address_first"}
              /\ UNCHANGED <<incident_lat, incident_lon>>
         ELSE IF coords # None
         THEN /\ incident_lat' = <<coords[1]>>
              /\ incident_lon' = <<coords[2]>>
              /\ notice' = {"incident_located"}
         ELSE /\ notice' = {"address_not_found"}
              /\ UNCHANGED <<incident_lat, incident_lon>>
    /\ UNCHANGED <<store, history, current_user, cur_pos, page, temp_emergency_coords>>
    /\ UNCHANGED hotlines

\* government_dashboard, "Submit Official Report".
SubmitOfficialReport(category, description, incident_address, net_ok) ==
    /\ Dashboard("government")
    /\ IF ~AllFilled(<<description, incident_address>>)
       THEN Reject("provide_description_and_address")
       ELSE LET coords == geocode_address(incident_address, net_ok)
                kept == incident_lat # None /\ incident_lon # None
            IN  IF ~kept /\ coords = None
                THEN Reject("could_not_locate_incident")
                ELSE /\ Len(reports) < MaxReports
                     /\ reports' = add_report(user.id, DisplayName(user), category, description,
                                              IF kept THEN incident_lat[1] ELSE coords[1],
                                              IF kept THEN incident_lon[1] ELSE coords[2])
                     /\ notice' = {"report_submitted"}
                     /\ UNCHANGED <<users, sos_logs, session, history>>
    /\ UNCHANGED hotlines

\* Where the object at position pos of users is after delete_user_by_id
\* rebuilt the list; 0 when the filter dropped it.
PosAfterDelete(pos, user_id) ==
    IF pos = 0 \/ ~KeepUser(users[pos], user_id) THEN 0
    ELSE Cardinality({i \in 1..pos : KeepUser(users[i], user_id)})

\* A test that takes no id for the admin's own.
NeverOwnId(user_id_to_delete) == FALSE

\* The admin may not delete the account it is logged in with.
IsOwnId(user_id_to_delete) == user_id_to_delete = user.id

\* admin_dashboard, "Delete User" with the number typed in the id box.
DeleteUser(user_id_to_delete) ==
    /\ Dashboard("admin")
    /\ user_id_to_delete > 0
    /\ IF IsOwnId(user_id_to_delete)
       THEN Reject("cannot_delete_own_account")
       ELSE /\ users' = delete_users(user_id_to_delete)
            /\ sos_logs' = delete_logs(user_id_to_delete)
            /\ cur_pos' = PosAfterDelete(cur_pos, user_id_to_delete)
            /\ notice' = {"user_deleted"}
            /\ UNCHANGED <<reports, current_user, page, temp_emergency_coords,
                           incident_lat, incident_lon, history>>
    /\ UNCHANGED hotlines

\* get_all_users_df: one row per stored user, one column per key of the dicts.
get_all_users_df == users

\* DataFrame.to_csv(index=False): a header with every column, then every row.
to_csv(df) ==
    [header |-> UNION {DOMAIN df[i] : i \in 1..Len(df)}, rows |-> df]

\* admin_dashboard, "Export Users CSV": the file offered for download is
\* to_csv(get_all_users_df) of this run.
ExportUsersCSV ==
    /\ Dashboard("admin")
    /\ get_all_users_df # <<>>
    /\ notice' = {"download_offered"}
    /\ UNCHANGED <<store, session, history>>
    /\ UNCHANGED hotlines

(* ---------------- input sets ---------------- *)
Filled(v) == {Blank, v}

\* The forms submitted: every field filled, or exactly one of them left blank.
WithOneBlank(full, fields) ==
    full \cup {[f EXCEPT ![k] = Blank] : f \in full, k \in fields}

CitizenFilled ==
    [username : Usernames, password : Passwords, name : {"n"}, mobile : {"m"},
     address : Addresses]

CitizenForms ==
    WithOneBlank(CitizenFilled, {"username", "password", "name", "mobile", "address"})

RescuerFilled ==
    [username : Usernames, password : Passwords, name : {"n"}, mobile : {"m"},
     position : {"Police Officer"}, work : {"w"}, address : Addresses]

RescuerForms ==
    WithOneBlank(RescuerFilled, {"username", "password", "name", "mobile", "work", "address"})

GovernmentFilled ==
    [username : Usernames, password : Passwords, name : {"n"}, mobile : {"m"},
     position : {"o"}, department : {"d"}, address : Addresses]

GovernmentForms ==
    WithOneBlank(GovernmentFilled,
                 {"username", "password", "name", "mobile", "position", "department",
                  "address"})

AdminFilled ==
    [username : Usernames, password : Passwords, name : {"n"}, mobile : {"m"},
     position : {"o"}, department : {"d"}, address : Addresses,
     confirm_password : LoginPasswords, verification_code : {ADMIN_CODE, "guess"}]

AdminForms ==
    WithOneBlank(AdminFilled,
                 {"username", "password", "name", "mobile", "position", "department",
                  "address", "verification_code"})

UserIds == 1..(MaxUsers + 1)

(* ---------------- specification ---------------- *)
Next ==
    \/ SidebarLogin
    \/ SidebarSignup
    \/ SidebarHome
    \/ SidebarAbout
    \/ SidebarLogout
    \/ \E target \in SignupPages : page_signup_role(target)
    \/ \E f \in CitizenForms, net_ok \in BOOLEAN : page_signup_user(f, net_ok)
    \/ \E f \in RescuerForms, net_ok \in BOOLEAN : page_signup_rescuer(f, net_ok)
    \/ \E f \in GovernmentForms, net_ok \in BOOLEAN : page_signup_government(f, net_ok)
    \/ \E f \in AdminForms, net_ok \in BOOLEAN : page_signup_admin(f, net_ok)
    \/ \E username \in Usernames \cup {Blank}, password \in LoginPasswords \cup {Blank} :
          page_login(username, password)
    \/ \E address \in Addresses, net_ok \in BOOLEAN : LocateThisAddress(address, net_ok)
    \/ \E use_registered \in BOOLEAN : SendEmergencyAlert(use_registered)
    \/ \E net_ok \in BOOLEAN : ReGeocodeMyAddress(net_ok)
    \/ \E sos_id \in 1..(MaxAlerts + 1) : MarkHandled(sos_id)
    \/ \E address \in Addresses \cup {Blank}, net_ok \in BOOLEAN :
          GeocodeIncidentAddress(address, net_ok)
    \/ \E description \in Filled("flooded road"), address \in Addresses \cup {Blank},
          net_ok \in BOOLEAN :
          SubmitOfficialReport("Flood", description, address, net_ok)
    \/ \E user_id \in UserIds : DeleteUser(user_id)
    \/ ExportUsersCSV

Spec == Init /\ [][Next]_vars

(* ---------------- three accounts ---------------- *)
\* The same handlers with a third username, driven with complete forms and an
\* answering provider: the runs in which two stored users, or two stored
\* alerts, come to share an id and a third account acts on them.
DeepUsernames == Usernames \cup {"c"}

DeepForms ==
    [username : DeepUsernames, password : Passwords, name : {"n"}, mobile : {"m"},
     position : {"o"}, work : {"w"}, department : {"d"}, address : Addresses,
     confirm_password : Passwords, verification_code : {ADMIN_CODE}]

CascadeNext ==
    \/ SidebarLogin
    \/ SidebarSignup
    \/ SidebarLogout
    \/ \E target \in SignupPages : page_signup_role(target)
    \/ \E f \in DeepForms : page_signup_user(f, TRUE)
    \/ \E f \in DeepForms : page_signup_rescuer(f, TRUE)
    \/ \E f \in DeepForms : page_signup_government(f, TRUE)
    \/ \E f \in DeepForms : page_signup_admin(f, TRUE)
    \/ \E username \in DeepUsernames, password \in Passwords : page_login(username, password)
    \/ SendEmergencyAlert(TRUE)
    \/ \E sos_id \in 1..(MaxAlerts + 1) : MarkHandled(sos_id)
    \/ \E address \in Addresses : SubmitOfficialReport("Flood", "flooded road", address, TRUE)
    \/ \E user_id \in UserIds : DeleteUser(user_id)

SpecCascade == Init /\ [][CascadeNext]_vars

(* ---------------- citizens and hotlines ---------------- *)
\* The property addresses citizens sign up with here.
CitizenAddresses == Addresses \cup {"equator"}

\* The citizen's part of the program, started with any outcome of the hotline
\* lookups of the first run.
HotlineInit == \E answers \in [HotlineAddresses -> BOOLEAN] : FirstRun(answers)

HotlineNext ==
    \/ SidebarLogin
    \/ SidebarSignup
    \/ SidebarLogout
    \/ page_signup_role("signup_user")
    \/ \E f \in CitizenFilled, address \in CitizenAddresses, net_ok \in BOOLEAN :
          page_signup_user([f EXCEPT !.address = address], net_ok)
    \/ \E username \in Usernames, password \in Passwords : page_login(username, password)
    \/ \E net_ok \in BOOLEAN : ReGeocodeMyAddress(net_ok)
    \/ \E use_registered \in BOOLEAN : SendEmergencyAlert(use_registered)

SpecHotlines == HotlineInit /\ [][HotlineNext]_vars

(* ---------------- the hotline cache ---------------- *)
\* A call of get_hotline_coordinates (page_home, user_dashboard): the session
\* keeps the mapping it returns.
CallGetHotlineCoordinates(answers) ==
    LET h == get_hotline_coordinates([cache |-> hotline_coordinates,
                                      lookups |-> hotline_lookups], answers) IN
    /\ hotline_coordinates' = h.cache
    /\ hotline_lookups' = h.lookups
    /\ UNCHANGED <<store, session, history, notice>>

\* The session as initialize_session_state leaves it, before the first page
\* is drawn.
CacheInit ==
    /\ users = <<>>
    /\ sos_logs = <<>>
    /\ reports = <<>>
    /\ current_user = None
    /\ cur_pos = 0
    /\ page = "home"
    /\ temp_emergency_coords = None
    /\ incident_lat = None
    /\ incident_lon = None
    /\ notice = {}
    /\ issued_ids = {}
    /\ hotline_coordinates = NoHotlines.cache
    /\ hotline_lookups = NoHotlines.lookups

\* The home page of the first run calls get_hotline_coordinates before any
\* widget can be used; later runs call it again, with any provider behaviour.
CacheNext ==
    \/ \E answers \in [HotlineAddresses -> BOOLEAN] : CallGetHotlineCoordinates(answers)
    \/ /\ DOMAIN hotline_coordinates # {}
       /\ HotlineNext

SpecCache == CacheInit /\ [][CacheNext]_vars

(* ---------------- the ranking on any alert list ---------------- *)
\* The ranking of rescuer_dashboard as a function of its inputs: a responder
\* is logged in, at a point or without coordinates, and the store holds any
\* list of up to RankedAlerts alerts, each at the responder's point, away
\* from it or without a latitude, handled or not.
RankedAlerts == MaxAlerts + 1

RankLatitudes == {CANTILAN_CENTER[1], 93400, NaN}

RankStores ==
    UNION {{[i \in 1..n |-> [id |-> i, user_id |-> 1, user_name |-> "n",
                             lat |-> f[i][1], lon |-> CANTILAN_CENTER[2],
                             handled |-> f[i][2],
                             address |-> get_address_from_coords(f[i][1],
                                                                 CANTILAN_CENTER[2])]] :
               f \in [1..n -> RankLatitudes \X BOOLEAN]} : n \in 0..RankedAlerts}

\* Three alerts around CANTILAN_CENTER, in store order: A at (9.34, 125.98),
\* B at (9.33, 125.97), C without coordinates; B alone may be handled.
ExampleStores ==
    {<<[id |-> 1, user_id |-> 1, user_name |-> "n", lat |-> 93400, lon |-> 1259800,
        handled |-> FALSE, address |-> get_address_from_coords(93400, 1259800)],
       [id |-> 2, user_id |-> 1, user_name |-> "n", lat |-> 93300, lon |-> 1259700,
        handled |-> handled, address |-> get_address_from_coords(93300, 1259700)],
       [id |-> 3, user_id |-> 1, user_name |-> "n", lat |-> NaN, lon |-> NaN,
        handled |-> FALSE, address |-> get_address_from_coords(NaN, NaN)]>> :
     handled \in BOOLEAN}

RankUsers(lat) ==
    <<[id |-> 1, username |-> "a", password |-> "p", name |-> "n", role |-> "user",
       property_address |-> "x", latitude |-> CANTILAN_CENTER[1],
       longitude |-> CANTILAN_CENTER[2]],
      [id |-> 2, username |-> "b", password |-> "p", name |-> "n", role |-> "rescuer",
       property_address |-> "x", latitude |-> lat, longitude |-> CANTILAN_CENTER[2]]>>

RankInit ==
    /\ \E lat \in {CANTILAN_CENTER[1], NaN} :
          /\ users = RankUsers(lat)
          /\ current_user = <<RankUsers(lat)[2]>>
    /\ cur_pos = 2
    /\ sos_logs \in RankStores \cup ExampleStores
    /\ reports = <<>>
    /\ page = "login"
    /\ temp_emergency_coords = None
    /\ incident_lat = None
    /\ incident_lon = None
    /\ notice = {"welcome"}
    /\ issued_ids = {1, 2}
    /\ hotline_coordinates = get_hotline_coordinates(NoHotlines, AllAnswered).cache
    /\ hotline_lookups = get_hotline_coordinates(NoHotlines, AllAnswered).lookups

RankNext == \E sos_id \in 1..RankedAlerts : MarkHandled(sos_id)

SpecRank == RankInit /\ [][RankNext]_vars

(* ---------------- officials and reports ---------------- *)
\* The incident addresses officials type here: two that the provider places
\* at different points.
IncidentAddresses == Addresses \cup {"equator"}

\* The official's part of the program: signup, login, and the two buttons of
\* the report section with any of the incident addresses.
ReportNext ==
    \/ SidebarLogin
    \/ SidebarSignup
    \/ SidebarLogout
    \/ page_signup_role("signup_government")
    \/ \E f \in GovernmentFilled, net_ok \in BOOLEAN : page_signup_government(f, net_ok)
    \/ \E username \in Usernames, password \in Passwords : page_login(username, password)
    \/ \E address \in IncidentAddresses \cup {Blank}, net_ok \in BOOLEAN :
          GeocodeIncidentAddress(address, net_ok)
    \/ \E address \in IncidentAddresses, net_ok \in BOOLEAN :
          SubmitOfficialReport("Flood", "flooded road", address, net_ok)

SpecReports == Init /\ [][ReportNext]_vars

(* ---------------- the router on any session ---------------- *)
\* An unknown role leads on to the public pages.
main_router_falling_through ==
    IF current_user # None
          /\ current_user[1].role \in {"user", "rescuer", "government", "admin"}
    THEN current_user[1].role
    ELSE IF page \in {"home", "about", "signup_role", "login"} \cup SignupPages THEN page
    ELSE "home"

\* main_router: what a script run draws below the sidebar, named by the role
\* whose dashboard it is, by the public page, or "unknown_role" for the error
\* shown alone.
main_router ==
    IF current_user # None
    THEN IF current_user[1].role \in {"user", "rescuer", "government", "admin"}
         THEN current_user[1].role
         ELSE "unknown_role"
    ELSE IF page \in {"home", "about", "signup_role", "login"} \cup SignupPages THEN page
    ELSE "home"

\* A script run in which no widget is used: main_router draws and writes
\* nothing.
RunMainRouter ==
    /\ notice' = IF main_router = "unknown_role" THEN {"unknown_user_role"} ELSE {}
    /\ UNCHANGED <<store, session, history, hotlines>>

\* The router as a function of the session: any role in current_user, the
\* four the signup pages store and one they do not, any page name, logged in
\* or not, with or without an alert in the store.
RouterRoles == {"user", "rescuer", "government", "admin", "guest"}

RouterPages == {"home", "about", "signup_role", "login", "dashboard"} \cup SignupPages

RouterUsers(role) ==
    <<[id |-> 1, username |-> "a", password |-> "p", name |-> "n", role |-> role,
       property_address |-> "x", latitude |-> CANTILAN_CENTER[1],
       longitude |-> CANTILAN_CENTER[2]]>>

RouterInit ==
    /\ \E role \in RouterRoles :
          /\ users = RouterUsers(role)
          /\ \/ current_user = <<RouterUsers(role)[1]>> /\ cur_pos = 1
             \/ current_user = None /\ cur_pos = 0
    /\ sos_logs \in {rows \in RankStores : Len(rows) <= 1}
    /\ reports = <<>>
    /\ page \in RouterPages
    /\ temp_emergency_coords = None
    /\ incident_lat = None
    /\ incident_lon = None
    /\ notice = {}
    /\ issued_ids = {1}
    /\ hotline_coordinates = get_hotline_coordinates(NoHotlines, AllAnswered).cache
    /\ hotline_lookups = get_hotline_coordinates(NoHotlines, AllAnswered).lookups

RouterNext ==
    \/ RunMainRouter
    \/ SidebarLogout

SpecRouter == RouterInit /\ [][RouterNext]_vars

(* ======================= claims ======================= *)
Ids(seq) == {seq[i].id : i \in 1..Len(seq)}

Distinct(seq) == \A i, j \in 1..Len(seq) : i # j => seq[i].id # seq[j].id

\* C1: in every reachable state all ids are >= 1 and no two users, no two
\* alerts and no two reports share an id.
C1_IdsPositiveUnique ==
    /\ \A n \in Ids(users) \cup Ids(sos_logs) \cup Ids(reports) : n >= 1
    /\ Distinct(users)
    /\ Distinct(sos_logs)
    /\ Distinct(reports)

\* C2: the id add_user gives a new user differs from every id it assigned
\* before, also when the earlier holder has been deleted since.
C2_IdNeverReused ==
    [][Len(users') = Len(users) + 1 => users'[Len(users')].id \notin issued_ids]_vars

\* seq without its element at position i.
RemoveAt(seq, i) == [k \in 1..(Len(seq) - 1) |-> IF k < i THEN seq[k] ELSE seq[k + 1]]

\* A "Delete User" run that reached delete_user_by_id(user_id).
DeleteStep(user_id) == DeleteUser(user_id) /\ ~IsOwnId(user_id)

HoldersOf(user_id) == {i \in 1..Len(users) : users[i].id = user_id}

\* C3: delete_user_by_id(id) removes exactly the one user the id designates
\* and exactly that user's alerts; every other user and alert and all reports
\* stay, in the same order.
C3_DeleteRemovesExactlyOne ==
    [][\A user_id \in UserIds :
          DeleteStep(user_id) /\ HoldersOf(user_id) # {} =>
              /\ \E i \in HoldersOf(user_id) : users' = RemoveAt(users, i)
              /\ sos_logs' = SelectSeq(sos_logs, LAMBDA l : l.user_id # user_id)
              /\ reports' = reports]_vars

\* The messages displayed with st.error.
Errors ==
    {"fill_required", "username_exists", "passwords_do_not_match",
     "invalid_verification_code", "invalid_login", "locate_current_address_first",
     "address_not_found", "could_not_locate_address",
     "provide_description_and_address", "could_not_locate_incident",
     "cannot_delete_own_account"}

\* C4: delete_user_by_id with an id no stored user has changes neither users
\* nor alerts nor reports and displays no error; after any delete_user_by_id
\* no stored user has the id, so a second call is such a call.
C4_DeleteAbsentIsNoOp ==
    [][\A user_id \in UserIds :
          DeleteStep(user_id) =>
              /\ HoldersOf(user_id)' = {}
              /\ HoldersOf(user_id) = {} =>
                    /\ UNCHANGED <<users, sos_logs, reports>>
                    /\ notice' \cap Errors = {}]_vars

\* "Delete User" has just run while the two users ever registered, with the
\* ids 1 and 2, and an alert are stored: the id it was given is held by no
\* user, and there is an alert the call could have removed.
C4_Witness ==
    /\ notice = {"user_deleted"}
    /\ Len(users) = 2
    /\ Ids(users) = {1, 2}
    /\ issued_ids = {1, 2}
    /\ Len(sos_logs) = 1

RECURSIVE IsSubseq(_, _)
\* a is b with some elements left out.
IsSubseq(a, b) ==
    IF a = <<>> THEN TRUE
    ELSE IF b = <<>> THEN FALSE
    ELSE IF Head(a) = Head(b) THEN IsSubseq(Tail(a), Tail(b))
    ELSE IsSubseq(a, Tail(b))

\* C5: an alert is created unhandled; while it is stored its handled flag
\* never goes from true to false; "Mark Handled" that reaches an alert already
\* handled changes no alert.
C5_HandledOneWay ==
    [][/\ Len(sos_logs') > Len(sos_logs) =>
            /\ Len(sos_logs') = Len(sos_logs) + 1
            /\ SubSeq(sos_logs', 1, Len(sos_logs)) = sos_logs
            /\ ~sos_logs'[Len(sos_logs')].handled
       /\ Len(sos_logs') = Len(sos_logs) =>
            \A i \in 1..Len(sos_logs) :
                /\ sos_logs[i].handled => sos_logs'[i].handled
                /\ [sos_logs'[i] EXCEPT !.handled = FALSE] = [sos_logs[i] EXCEPT !.handled = FALSE]
       /\ Len(sos_logs') < Len(sos_logs) => IsSubseq(sos_logs', sos_logs)
       /\ \A sos_id \in 1..(MaxAlerts + 1) :
            (MarkHandled(sos_id) /\ sos_logs[AlertIdx(sos_id)].handled) =>
                sos_logs' = sos_logs]_vars

\* A responder has marked an alert and is shown a second, unresolved alert
\* with the same id: its button reaches the alert already handled.
C5_Witness ==
    /\ Dashboard("rescuer")
    /\ notice = {"marked_handled"}
    /\ \E i, j \in 1..Len(sos_logs) :
          /\ i < j
          /\ sos_logs[i].id = sos_logs[j].id
          /\ sos_logs[i].handled
          /\ ~sos_logs[j].handled

Matching(username, password) ==
    {i \in 1..Len(users) : users[i].username = username /\ users[i].password = password}

\* C6: validate_login returns a stored user with exactly this username and
\* password when there is one and none otherwise; a failed login leaves
\* current_user unset and the store as it was.
C6_LoginExact ==
    [][(page = "login" /\ current_user = None) =>
       \A username \in DeepUsernames \cup {Blank}, password \in LoginPasswords \cup {Blank} :
          /\ validate_login(username, password) = None <=> Matching(username, password) = {}
          /\ validate_login(username, password) # None =>
                \E i \in Matching(username, password) :
                    validate_login(username, password) = <<users[i]>>
          /\ (page_login(username, password) /\ Matching(username, password) = {}) =>
                /\ current_user' = None
                /\ UNCHANGED <<users, sos_logs, reports>>]_vars

\* A login was refused although users are stored.
C6_Witness ==
    /\ notice = {"invalid_login"}
    /\ Len(users) > 0
    /\ current_user = None

Missing(fields) == \E i \in 1..Len(fields) : fields[i] = Blank

Taken(username) == \E i \in 1..Len(users) : users[i].username = username

Untouched == UNCHANGED <<users, sos_logs, reports, current_user, page>>

\* C7: a signup with a missing required field, a username already stored, a
\* password that differs from its confirmation (administrator) or a wrong
\* verification code (administrator) adds no user and leaves users, alerts,
\* reports, current_user and page as they were.
C7_InvalidSignupChangesNothing ==
    [][(page \in SignupPages /\ ~Untouched) =>
          /\ \A f \in CitizenForms, net_ok \in BOOLEAN :
                (Missing(<<f.username, f.password, f.name, f.mobile, f.address>>)
                    \/ Taken(f.username))
                => ~page_signup_user(f, net_ok)
          /\ \A f \in RescuerForms, net_ok \in BOOLEAN :
                (Missing(<<f.username, f.password, f.name, f.mobile, f.position, f.work,
                           f.address>>)
                    \/ Taken(f.username))
                => ~page_signup_rescuer(f, net_ok)
          /\ \A f \in GovernmentForms, net_ok \in BOOLEAN :
                (Missing(<<f.username, f.password, f.name, f.mobile, f.position,
                           f.department, f.address>>)
                    \/ Taken(f.username))
                => ~page_signup_government(f, net_ok)
          /\ \A f \in AdminForms, net_ok \in BOOLEAN :
                (Missing(<<f.username, f.password, f.name, f.mobile, f.position,
                           f.department, f.verification_code>>)
                    \/ Taken(f.username)
                    \/ f.password # f.confirm_password
                    \/ f.verification_code # ADMIN_CODE)
                => ~page_signup_admin(f, net_ok)]_vars

\* An administrator signup was refused for its verification code while users
\* are stored.
C7_Witness ==
    /\ notice = {"invalid_verification_code"}
    /\ page = "signup_admin"
    /\ Len(users) > 0

\* C8: no two stored users have the same username.
C8_UniqueUsernames ==
    \A i, j \in 1..Len(users) : i # j => users[i].username # users[j].username

\* Two users are stored after a deletion: the first one in the list is not
\* the first one registered.
C8_Witness ==
    /\ Len(users) = 2
    /\ users[1].id # 1

GeocodingFails(address, net_ok) == address = Blank \/ geocode_address(address, net_ok) = None

AddedAtCenter(f) ==
    /\ Len(users') = Len(users) + 1
    /\ SubSeq(users', 1, Len(users)) = users
    /\ users'[Len(users')].username = f.username
    /\ <<users'[Len(users')].latitude, users'[Len(users')].longitude>> = CANTILAN_CENTER

HasCoordinates(u) ==
    <<u.latitude, u.longitude>> \in {CANTILAN_CENTER} \cup {Locate(a) : a \in Addresses}

\* C9: a valid signup whose address is not geocoded (or is not given) still
\* adds the user, at CANTILAN_CENTER; every stored user has a latitude and a
\* longitude.
C9_SignupFallsBackToCenter ==
    [][/\ \A i \in 1..Len(users') : HasCoordinates(users'[i])
       /\ (page = "signup_user" /\ Len(users) < MaxUsers) =>
            \A f \in CitizenFilled, net_ok \in BOOLEAN :
                (/\ ~Taken(f.username)
                 /\ GeocodingFails(f.address, net_ok)
                 /\ page_signup_user(f, net_ok)) => AddedAtCenter(f)
       /\ (page = "signup_rescuer" /\ Len(users) < MaxUsers) =>
            \A f \in RescuerFilled, net_ok \in BOOLEAN :
                (/\ ~Taken(f.username)
                 /\ GeocodingFails(f.address, net_ok)
                 /\ page_signup_rescuer(f, net_ok)) => AddedAtCenter(f)
       /\ (page = "signup_government" /\ Len(users) < MaxUsers) =>
            \A f \in GovernmentFilled, net_ok \in BOOLEAN :
                (/\ ~Taken(f.username)
                 /\ GeocodingFails(f.address, net_ok)
                 /\ page_signup_government(f, net_ok)) => AddedAtCenter(f)
       /\ (page = "signup_admin" /\ Len(users) < MaxUsers) =>
            \A g \in AdminFilled, address \in Addresses \cup {Blank}, net_ok \in BOOLEAN :
                LET f == [g EXCEPT !.address = address] IN
                (/\ ~Taken(f.username)
                 /\ f.password = f.confirm_password
                 /\ f.verification_code = ADMIN_CODE
                 /\ GeocodingFails(f.address, net_ok)
                 /\ page_signup_admin(f, net_ok)) => AddedAtCenter(f)]_vars

\* An account was created with the warning that its address was not located,
\* and the new user is stored at CANTILAN_CENTER.
C9_Witness ==
    /\ notice = {"could_not_locate_using_center", "account_created"}
    /\ Len(users) > 0
    /\ <<users[Len(users)].latitude, users[Len(users)].longitude>> = CANTILAN_CENTER

\* C10: a report submitted with a description and an incident address whose
\* geocoding fails is still created.
C10_ReportDespiteGeocodingFailure ==
    [][\A address \in Addresses, net_ok \in BOOLEAN :
          (/\ incident_lat = None \/ incident_lon = None
           /\ geocode_address(address, net_ok) = None
           /\ SubmitOfficialReport("Flood", "flooded road", address, net_ok))
          => Len(reports') = Len(reports) + 1]_vars

\* C11: the administrator's user export holds every stored user and no
\* password column.
C11_ExportWithoutPasswords ==
    notice = {"download_offered"} =>
        /\ to_csv(get_all_users_df).rows = users
        /\ "password" \notin to_csv(get_all_users_df).header

\* The (alert, distance) pairs in store order, before the sort.
StoreOrder == WithDistance(responder_coords, get_active_sos)

Count(seq, x) == Cardinality({i \in 1..Len(seq) : seq[i] = x})

\* C12: when every distance to the responder is known, the ranked list is in
\* non-decreasing order of distance.
C12_RankedByDistance ==
    (Dashboard("rescuer") /\ \A i \in 1..Len(StoreOrder) : StoreOrder[i][2] # None) =>
        \A i, j \in 1..Len(alerts_with_distance) :
            i < j => alerts_with_distance[i][2][1] <= alerts_with_distance[j][2][1]

\* After a "Mark Handled" the dashboard ranks three alerts with known
\* distances, the first of the store being
\* farther away than a later one.
C12_Witness ==
    /\ Dashboard("rescuer")
    /\ notice = {"marked_handled"}
    /\ Len(StoreOrder) = 3
    /\ \A i \in 1..3 : StoreOrder[i][2] # None
    /\ StoreOrder[1][2][1] > StoreOrder[3][2][1]
    /\ alerts_with_distance # StoreOrder

\* C13: the alerts of any one distance (none included) are ranked in the
\* order they have in the store.
C13_RankingStable ==
    Dashboard("rescuer") =>
        \A i \in 1..Len(StoreOrder) :
            SelectSeq(alerts_with_distance, LAMBDA x : x[2] = StoreOrder[i][2])
                = SelectSeq(StoreOrder, LAMBDA x : x[2] = StoreOrder[i][2])

\* After a "Mark Handled": the first and the last alert of the store are
\* equally far, a nearer one lies between them, and the sort has moved it.
C13_Witness ==
    /\ Dashboard("rescuer")
    /\ notice = {"marked_handled"}
    /\ Len(StoreOrder) = 3
    /\ StoreOrder[1][2] = StoreOrder[3][2]
    /\ StoreOrder[1][2] # None
    /\ StoreOrder[2][2] # None
    /\ StoreOrder[2][2][1] < StoreOrder[1][2][1]
    /\ alerts_with_distance[1] = StoreOrder[2]

\* C14: in the ranked list no alert of known distance comes after an alert of
\* unknown distance.
C14_UnknownLast ==
    Dashboard("rescuer") =>
        \A i, j \in 1..Len(alerts_with_distance) :
            (i < j /\ alerts_with_distance[i][2] = None) => alerts_with_distance[j][2] = None

\* After a "Mark Handled": the store holds two alerts of unknown distance in
\* front of an alert of known distance.
C14_Witness ==
    /\ Dashboard("rescuer")
    /\ notice = {"marked_handled"}
    /\ Len(StoreOrder) = 3
    /\ StoreOrder[1][2] = None
    /\ StoreOrder[2][2] = None
    /\ StoreOrder[3][2] # None

\* C15: the ranked list holds every alert of the store exactly once, whatever
\* coordinates the alerts and the responder have.
C15_RankingKeepsAll ==
    Dashboard("rescuer") =>
        /\ Len(alerts_with_distance) = Len(get_active_sos)
        /\ \A i \in 1..Len(get_active_sos) :
              Count([k \in 1..Len(alerts_with_distance) |-> alerts_with_distance[k][1]],
                    get_active_sos[i])
                 = Count(get_active_sos, get_active_sos[i])

\* After a "Mark Handled": a responder without coordinates is shown three
\* alerts, and none of the distances is known.
C15_Witness ==
    /\ Dashboard("rescuer")
    /\ notice = {"marked_handled"}
    /\ ~IsPoint(responder_coords)
    /\ Len(get_active_sos) = 3
    /\ \A i \in 1..3 : alerts_with_distance[i][2] = None

\* C16: every ranked alert is in exactly one of unresolved_alerts and
\* resolved_alerts, unresolved_alerts holds exactly the alerts not handled,
\* and each of the two lists is in ranked order.
C16_PartitionByHandled ==
    Dashboard("rescuer") =>
        /\ Len(unresolved_alerts) + Len(resolved_alerts) = Len(alerts_with_distance)
        /\ \A i \in 1..Len(alerts_with_distance) :
              Count(unresolved_alerts, alerts_with_distance[i])
                + Count(resolved_alerts, alerts_with_distance[i])
                 = Count(alerts_with_distance, alerts_with_distance[i])
        /\ \A i \in 1..Len(unresolved_alerts) : ~unresolved_alerts[i][1].handled
        /\ \A i \in 1..Len(resolved_alerts) : resolved_alerts[i][1].handled
        /\ IsSubseq(unresolved_alerts, alerts_with_distance)
        /\ IsSubseq(resolved_alerts, alerts_with_distance)

\* "Mark Handled" has just moved an alert to the resolved list, which now
\* holds two alerts while one is still unresolved.
C16_Witness ==
    /\ Dashboard("rescuer")
    /\ notice = {"marked_handled"}
    /\ Len(resolved_alerts) = 2
    /\ Len(unresolved_alerts) = 1

\* C18: the responder's dashboard is built without raising, whatever alerts
\* are stored.
C18_RankedViewNeverRaises ==
    Dashboard("rescuer") => ~ResolvedLabelRaises

\* The hotlines that have a coordinate.
Located == {i \in 1..Len(HOTLINES) : HOTLINES[i].Address \in DOMAIN hotline_coordinates}

HotlineDistance(i) ==
    get_distance(<<user.latitude, user.longitude>>, hotline_coordinates[HOTLINES[i].Address])

\* The first hotline, in HOTLINES order, at the least distance.
IsFirstNearest(i) ==
    /\ i \in Located
    /\ \A k \in Located : HotlineDistance(i)[1] <= HotlineDistance(k)[1]
    /\ \A k \in Located : k < i => HotlineDistance(i)[1] < HotlineDistance(k)[1]

\* C17: the nearest-hotline scan returns none exactly when no hotline has a
\* coordinate, and otherwise the hotline at the least distance (zero
\* included), the first of them in HOTLINES order.
C17_NearestHotline ==
    Dashboard("user") =>
        /\ nearest_hotline = None <=> Located = {}
        /\ \A i \in Located : IsFirstNearest(i) => nearest_hotline = <<HOTLINES[i]>>

\* The alert without its handled flag.
Unflagged(alert) == [alert EXCEPT !.handled = FALSE]

\* C19: a step that is not the cascade of delete_user_by_id (signup, login,
\* logout, SOS submission, mark_sos_handled, re-geocoding, report submission)
\* leaves every stored alert in the store, at its place.
C19_OnlyDeleteRemovesAlerts ==
    [][(~\E user_id \in UserIds : DeleteStep(user_id)) =>
          /\ Len(sos_logs') >= Len(sos_logs)
          /\ \A i \in 1..Len(sos_logs) : Unflagged(sos_logs'[i]) = Unflagged(sos_logs[i])]_vars

\* An official has submitted a report while two alerts are stored.
C19_Witness ==
    /\ notice = {"report_submitted"}
    /\ Len(sos_logs) = 2

\* C20: reports only grows by a report appended while the logged-in user has
\* the government role; no step changes or removes a stored report.
C20_ReportsByOfficialsImmutable ==
    [][/\ Len(reports') >= Len(reports)
       /\ SubSeq(reports', 1, Len(reports)) = reports
       /\ reports' # reports =>
            /\ current_user # None
            /\ current_user[1].role = "government"
            /\ Len(reports') = Len(reports) + 1]_vars

\* The administrator has deleted the official who filed the stored report.
C20_Witness ==
    /\ notice = {"user_deleted"}
    /\ Len(reports) = 1
    /\ reports[1].reporter_id \notin Ids(users)

\* A "Re-geocode My Address" run.
ReGeocodeStep == \E net_ok \in BOOLEAN : ReGeocodeMyAddress(net_ok)

\* C21: when a user re-geocodes the address or is deleted, every alert and
\* report that stays in the store keeps the name, coordinates and address it
\* was created with.
C21_SnapshotsKept ==
    [][(ReGeocodeStep \/ \E user_id \in UserIds : DeleteStep(user_id)) =>
          /\ IsSubseq(sos_logs', sos_logs)
          /\ ReGeocodeStep => sos_logs' = sos_logs
          /\ reports' = reports]_vars

\* A citizen has moved to re-geocoded coordinates while an alert sent from
\* the former ones is stored.
C21_Witness ==
    /\ notice = {"location_updated"}
    /\ \E i \in 1..Len(sos_logs) :
          /\ sos_logs[i].user_id = user.id
          /\ <<sos_logs[i].lat, sos_logs[i].lon>> # <<user.latitude, user.longitude>>

\* C22: a latitude or longitude of 0 is a coordinate like any other: the
\* citizen's nearest hotline is the result of the scan from the citizen's
\* point, and every alert at a point gets a distance to a responder at a
\* point.
C22_ZeroIsACoordinate ==
    /\ Dashboard("user") =>
          nearest_hotline = ScanHotlines(<<user.latitude, user.longitude>>, 1, Inf, None)
    /\ Dashboard("rescuer") =>
          \A i \in 1..Len(get_active_sos) :
              (IsPoint(responder_coords)
                  /\ IsPoint(<<get_active_sos[i].lat, get_active_sos[i].lon>>))
              => StoreOrder[i][2] # None

\* C23: the geocoder is asked at most once per hotline address; once the
\* cache is filled no call changes the mapping or asks the geocoder again;
\* every cached address holds the point its lookup found, or CANTILAN_CENTER
\* when the lookup failed.
C23_HotlinesCachedPerAddress ==
    /\ [](/\ \A i, j \in 1..Len(hotline_lookups) :
               i # j => hotline_lookups[i].address # hotline_lookups[j].address
          /\ \A i \in 1..Len(hotline_lookups) :
               /\ hotline_lookups[i].address \in DOMAIN hotline_coordinates
               /\ hotline_coordinates[hotline_lookups[i].address] =
                     IF hotline_lookups[i].coords = None THEN CANTILAN_CENTER
                     ELSE hotline_lookups[i].coords
          /\ DOMAIN hotline_coordinates \in {{}, HotlineAddresses})
    /\ [][DOMAIN hotline_coordinates # {} =>
             /\ hotline_coordinates' = hotline_coordinates
             /\ hotline_lookups' = hotline_lookups]_vars

C23_Witness ==
    /\ Len(hotline_lookups) = Cardinality(HotlineAddresses)
    /\ \E i \in 1..Len(hotline_lookups) : hotline_lookups[i].coords = None
    /\ \E i \in 1..Len(hotline_lookups) : hotline_lookups[i].coords # None
    /\ Dashboard("user")
    /\ sos_logs # <<>>

\* C24: with a logged-in user whose role is none of user, rescuer,
\* government, admin, the router draws the error and no public page, and its
\* run leaves current_user and the store as they were.
C24_UnknownRoleShowsError ==
    /\ [](current_user # None
            /\ current_user[1].role \notin {"user", "rescuer", "government", "admin"}
          => main_router = "unknown_role")
    /\ [][(/\ current_user # None
           /\ current_user[1].role \notin {"user", "rescuer", "government", "admin"}
           /\ RunMainRouter)
          => /\ notice' = {"unknown_user_role"}
             /\ current_user' = current_user
             /\ current_user' # None
             /\ store' = store]_vars

C24_Witness ==
    /\ notice = {"unknown_user_role"}
    /\ current_user # None
    /\ current_user[1].role = "guest"
    /\ sos_logs # <<>>

\* The ids of the alerts of a ranked list, in its order.
IdsInOrder(ranked) == [i \in 1..Len(ranked) |-> ranked[i][1].id]

\* A responder at (9.3355, 125.9769) looks at the alerts A (id 1, unhandled),
\* B (id 2, handled) and C (id 3, unhandled, no coordinates).
ExampleShown ==
    /\ Dashboard("rescuer")
    /\ responder_coords = CANTILAN_CENTER
    /\ sos_logs \in ExampleStores
    /\ sos_logs[2].handled

\* C25, as stated: the example is ranked B, A, C and split into unhandled
\* A, C and handled B.
C25_ExampleRankedBAC ==
    ExampleShown =>
        /\ IdsInOrder(alerts_with_distance) = <<2, 1, 3>>
        /\ IdsInOrder(unresolved_alerts) = <<1, 3>>
        /\ IdsInOrder(resolved_alerts) = <<2>>

\* C25, as the program computes it: A is the closer one, so the example is
\* ranked A, B, C and split into unhandled A, C and handled B.
C25_ExampleRankedABC ==
    ExampleShown =>
        /\ IdsInOrder(alerts_with_distance) = <<1, 2, 3>>
        /\ IdsInOrder(unresolved_alerts) = <<1, 3>>
        /\ IdsInOrder(resolved_alerts) = <<2>>

C25_Witness ==
    /\ ExampleShown
    /\ notice = {"marked_handled"}

\* C26: "Mark Handled" pressed on an unhandled alert of the dashboard sets
\* the handled flag of that alert and changes no other alert.
C26_MarkHandledMarksThatAlert ==
    [][\A sos_id \in 1..(MaxAlerts + 1) :
          MarkHandled(sos_id) =>
              \E i \in 1..Len(sos_logs) :
                  /\ sos_logs[i].id = sos_id
                  /\ ~sos_logs[i].handled
                  /\ Len(sos_logs') = Len(sos_logs)
                  /\ sos_logs'[i] = [sos_logs[i] EXCEPT !.handled = TRUE]
                  /\ \A j \in 1..Len(sos_logs) : j # i => sos_logs'[j] = sos_logs[j]]_vars

\* C27: whenever somebody is logged in, the record in current_user is one of
\* the stored users.
C27_CurrentUserStored ==
    current_user # None =>
        /\ cur_pos \in 1..Len(users)
        /\ users[cur_pos] = current_user[1]

C27_Witness ==
    /\ notice = {"user_deleted"}
    /\ current_user # None
    /\ cur_pos = 1
    /\ Len(users) = 2

\* C28: every stored alert carries the id of a stored user.
C28_AlertsOfStoredUsers ==
    \A i \in 1..Len(sos_logs) : sos_logs[i].user_id \in Ids(users)

C28_Witness ==
    /\ notice = {"user_deleted"}
    /\ Len(users) = 2
    /\ sos_logs # <<>>

\* C30: a delete with the administrator's own id is refused and leaves the
\* three collections as they were; a delete with any other id leaves the
\* administrator's own record stored.
C30_AdminKeepsOwnAccount ==
    [][\A user_id \in UserIds :
          DeleteUser(user_id) =>
              /\ user_id = current_user[1].id =>
                    /\ store' = store
                    /\ notice' = {"cannot_delete_own_account"}
              /\ user_id # current_user[1].id =>
                    /\ current_user' = current_user
                    /\ cur_pos' \in 1..Len(users')
                    /\ users'[cur_pos'] = current_user[1]]_vars

C30_Witness ==
    /\ notice = {"cannot_delete_own_account"}
    /\ Len(users) = 2
    /\ sos_logs # <<>>

\* C29: a report that is created carries the coordinates of the incident
\* address typed in the submission that created it.
C29_ReportAtSubmittedAddress ==
    [][\A address \in IncidentAddresses, net_ok \in BOOLEAN :
          (/\ SubmitOfficialReport("Flood", "flooded road", address, net_ok)
           /\ Len(reports') = Len(reports) + 1)
          => <<reports'[Len(reports')].lat, reports'[Len(reports')].lon>> = Locate(address)]_vars

====
